---- MODULE Spec2Model ----
(***************************************************************************)
(* A model of shellsubst.ShellSubst: the expansion engine for $NAME,       *)
(* ${NAME} and ${NAME<op>fallback}.  Strings are sequences of one-         *)
(* character strings.  Indices are the source's 0-based indices: At(s, i)  *)
(* is s[i], Sub(s, a, b) is s[a:b], and a search that finds nothing gives  *)
(* -1, as str.find does (a regex match that fails gives -1 for its end).   *)
(***************************************************************************)
EXTENDS Integers, Sequences, FiniteSets, TLC

\* ------------------------------------------------------------------ text

\* Python's None where a string is expected: no string of the model has
\* an element longer than one character.
None == <<"None">>

\* _variable_as_int's None, and its int n as <<n>>
NoInt == <<>>

\* [a-zA-Z]
Letters ==
    {"a", "b", "c", "d", "e", "f", "g", "h", "i", "j", "k", "l", "m",
     "n", "o", "p", "q", "r", "s", "t", "u", "v", "w", "x", "y", "z",
     "A", "B", "C", "D", "E", "F", "G", "H", "I", "J", "K", "L", "M",
     "N", "O", "P", "Q", "R", "S", "T", "U", "V", "W", "X", "Y", "Z"}

\* [0-9]
Digits == {"0", "1", "2", "3", "4", "5", "6", "7", "8", "9"}

\* s[i] for 0 <= i < len(s)
At(s, i) == s[i + 1]

Max(a, b) == IF a > b THEN a ELSE b

Min(a, b) == IF a < b THEN a ELSE b

\* A slice bound as Python normalises it: negative counts from the end,
\* and the result is clamped into 0..n.
PyBound(n, i) == IF i < 0 THEN Max(n + i, 0) ELSE Min(i, n)

\* s[a:b]
Sub(s, a, b) ==
    LET lo == PyBound(Len(s), a)
        hi == PyBound(Len(s), b)
    IN  IF lo < hi THEN SubSeq(s, lo + 1, hi) ELSE <<>>

\* s[a:]
From(s, a) ==
    LET lo == PyBound(Len(s), a)
    IN  IF lo < Len(s) THEN SubSeq(s, lo + 1, Len(s)) ELSE <<>>

\* str.find(ch, start): the first index >= start holding ch, else -1
RECURSIVE Find(_, _, _)
Find(s, ch, start) ==
    IF start >= Len(s) THEN -1
    ELSE IF At(s, start) = ch THEN start
    ELSE Find(s, ch, start + 1)

\* _re_search_delim.search(string, start): the first index >= start of a
\* '$' or a '}', else -1
RECURSIVE SearchDelim(_, _)
SearchDelim(s, start) ==
    IF start >= Len(s) THEN -1
    ELSE IF At(s, start) \in {"$", "}"} THEN start
    ELSE SearchDelim(s, start + 1)

\* The end of the longest run of characters of cls starting at i.
RECURSIVE RunEnd(_, _, _)
RunEnd(s, i, cls) ==
    IF i < Len(s) /\ At(s, i) \in cls THEN RunEnd(s, i + 1, cls) ELSE i

\* _re_variable_name.match(s, i).end(0):  [a-zA-Z0-9][a-zA-Z0-9_]*
MatchName(s, i) ==
    IF i < Len(s) /\ At(s, i) \in Letters \cup Digits
    THEN RunEnd(s, i + 1, Letters \cup Digits \cup {"_"})
    ELSE -1

\* _re_variable_name_with_args.match(s, i).end(0):
\* [@*#]|[0-9]+|[a-zA-Z_][a-zA-Z0-9_]*
MatchNameWithArgs(s, i) ==
    IF i >= Len(s) THEN -1
    ELSE IF At(s, i) \in {"@", "*", "#"} THEN i + 1
    ELSE IF At(s, i) \in Digits THEN RunEnd(s, i, Digits)
    ELSE IF At(s, i) \in Letters \cup {"_"}
    THEN RunEnd(s, i + 1, Letters \cup Digits \cup {"_"})
    ELSE -1

\* ShellSubst.re_variable_name(args_expansion), as the matcher it returns
re_variable_name(args_expansion) ==
    IF args_expansion THEN "name_with_args" ELSE "name"

\* self._re_varname.match(s, i).end(0)
MatchVarname(re, s, i) ==
    IF re = "name_with_args" THEN MatchNameWithArgs(s, i) ELSE MatchName(s, i)

FormatOps == {"-", "=", "?", "+"}

\* _re_format_simple  :?-
MatchFormatSimple(s, i) ==
    IF i + 1 < Len(s) /\ At(s, i) = ":" /\ At(s, i + 1) = "-" THEN i + 2
    ELSE IF i < Len(s) /\ At(s, i) = "-" THEN i + 1
    ELSE -1

\* _re_format_simple_strops  :-?|-
MatchFormatSimpleStrops(s, i) ==
    IF i >= Len(s) THEN -1
    ELSE IF At(s, i) = ":"
    THEN (IF i + 1 < Len(s) /\ At(s, i + 1) = "-" THEN i + 2 ELSE i + 1)
    ELSE IF At(s, i) = "-" THEN i + 1
    ELSE -1

\* _re_format_posix  :?[-=?+]
MatchFormatPosix(s, i) ==
    IF i + 1 < Len(s) /\ At(s, i) = ":" /\ At(s, i + 1) \in FormatOps THEN i + 2
    ELSE IF i < Len(s) /\ At(s, i) \in FormatOps THEN i + 1
    ELSE -1

\* _re_format_posix_strops  :[-=?+]?|[-=?+]
MatchFormatPosixStrops(s, i) ==
    IF i >= Len(s) THEN -1
    ELSE IF At(s, i) = ":"
    THEN (IF i + 1 < Len(s) /\ At(s, i + 1) \in FormatOps THEN i + 2 ELSE i + 1)
    ELSE IF At(s, i) \in FormatOps THEN i + 1
    ELSE -1

\* ShellSubst.re_format_spec(posix, strops), as the matcher it returns
re_format_spec(posix, strops) ==
    IF posix
    THEN (IF strops THEN "posix_strops" ELSE "posix")
    ELSE (IF strops THEN "simple_strops" ELSE "simple")

\* self._re_format_spec.match(s, i).end(0)
MatchFormatSpec(re, s, i) ==
    CASE re = "posix_strops" -> MatchFormatPosixStrops(s, i)
      [] re = "posix" -> MatchFormatPosix(s, i)
      [] re = "simple_strops" -> MatchFormatSimpleStrops(s, i)
      [] OTHER -> MatchFormatSimple(s, i)

\* ------------------------------------------------------------- integers

DigitVal(c) ==
    CASE c = "0" -> 0 [] c = "1" -> 1 [] c = "2" -> 2 [] c = "3" -> 3
      [] c = "4" -> 4 [] c = "5" -> 5 [] c = "6" -> 6 [] c = "7" -> 7
      [] c = "8" -> 8 [] c = "9" -> 9

DigitChar(n) ==
    CASE n = 0 -> "0" [] n = 1 -> "1" [] n = 2 -> "2" [] n = 3 -> "3"
      [] n = 4 -> "4" [] n = 5 -> "5" [] n = 6 -> "6" [] n = 7 -> "7"
      [] n = 8 -> "8" [] n = 9 -> "9"

\* str(n) for n >= 0
RECURSIVE Str(_)
Str(n) == IF n < 10 THEN <<DigitChar(n)>> ELSE Str(n \div 10) \o <<DigitChar(n % 10)>>

\* s.strip() for the one whitespace character of the model, the space
RECURSIVE Strip(_)
Strip(s) ==
    IF s = <<>> THEN s
    ELSE IF s[1] = " " THEN Strip(Tail(s))
    ELSE IF s[Len(s)] = " " THEN Strip(SubSeq(s, 1, Len(s) - 1))
    ELSE s

\* The digits of an int() literal: a digit first and last, and underscores
\* only singly between digits.
IsIntBody(s) ==
    /\ s # <<>>
    /\ \A i \in 1..Len(s) : s[i] \in Digits \cup {"_"}
    /\ s[1] \in Digits
    /\ s[Len(s)] \in Digits
    /\ \A i \in 1..(Len(s) - 1) : ~(s[i] = "_" /\ s[i + 1] = "_")

RECURSIVE IntBodyVal(_, _)
IntBodyVal(s, acc) ==
    IF s = <<>> THEN acc
    ELSE IF s[1] = "_" THEN IntBodyVal(Tail(s), acc)
    ELSE IntBodyVal(Tail(s), 10 * acc + DigitVal(s[1]))

\* ShellSubst._variable_as_int: int(name), or None on ValueError.  int()
\* takes surrounding whitespace, one sign, and underscores between digits.
_variable_as_int(name) ==
    LET t == Strip(name)
        signed == t # <<>> /\ t[1] \in {"-", "+"}
        body == IF signed THEN Tail(t) ELSE t
    IN  IF ~IsIntBody(body) THEN NoInt
        ELSE IF signed /\ t[1] = "-" THEN <<0 - IntBodyVal(body, 0)>>
        ELSE <<IntBodyVal(body, 0)>>

\* " ".join(items)
RECURSIVE JoinSpace(_)
JoinSpace(items) ==
    IF items = <<>> THEN <<>>
    ELSE IF Len(items) = 1 THEN items[1]
    ELSE items[1] \o <<" ">> \o JoinSpace(Tail(items))

\* ShellSubst._get_variable: <<value or None, special>>
_get_variable(values, argv, name) ==
    IF name = <<"@">> \/ name = <<"*">> THEN <<JoinSpace(SubSeq(argv, 2, Len(argv))), TRUE>>
    ELSE IF name = <<"#">> THEN <<Str(Len(argv)), TRUE>>
    ELSE LET varidx == _variable_as_int(name)
         IN  IF varidx # NoInt
             THEN (IF varidx[1] < 0 \/ varidx[1] >= Len(argv)
                   THEN <<None, TRUE>>
                   ELSE <<argv[varidx[1] + 1], TRUE>>)
             ELSE <<(IF name \in DOMAIN values THEN values[name] ELSE None), FALSE>>

\* ---------------------------------------------------------- span finder

\* A span finder that takes the first '}' after start as the end of the
\* substitution, whatever stands between
_find_subst_end_first_brace(re_varname, re_fmt, string, start) ==
    LET close == Find(string, "}", start)
    IN  IF close < 0 THEN [kind |-> "UnterminatedFormatError", end |-> -1]
        ELSE [kind |-> "ok", end |-> close + 1]

\* ShellSubst._find_subst_end: [kind |-> "ok", end |-> index past the
\* closing brace], or the error raised.
RECURSIVE _find_subst_end(_, _, _, _)
_find_subst_end(re_varname, re_fmt, string, start) ==
    LET next_delim == SearchDelim(string, start)
        idx == next_delim + 1
    IN  IF next_delim < 0 THEN [kind |-> "UnterminatedFormatError", end |-> -1]
        ELSE IF At(string, next_delim) = "}" THEN [kind |-> "ok", end |-> next_delim + 1]
        ELSE IF idx >= Len(string) THEN [kind |-> "UnterminatedFormatError", end |-> -1]
        ELSE IF At(string, idx) = "{"
        THEN LET vend == MatchVarname(re_varname, string, idx + 1)
                 fend == MatchFormatSpec(re_fmt, string, vend)
             IN  IF vend < 0 THEN [kind |-> "InvalidVariableNameError", end |-> -1]
                 ELSE IF fend < 0
                 THEN (IF vend >= Len(string) \/ At(string, vend) # "}"
                       THEN [kind |-> "UnterminatedFormatError", end |-> -1]
                       ELSE _find_subst_end(re_varname, re_fmt, string, vend + 1))
                 ELSE LET inner == _find_subst_end(re_varname, re_fmt, string, fend)
                      IN  IF inner.kind # "ok" THEN inner
                          ELSE _find_subst_end(re_varname, re_fmt, string, inner.end)
        ELSE IF idx >= 2 /\ At(string, idx - 2) = "\\"
        THEN _find_subst_end(re_varname, re_fmt, string, idx + 1)
        ELSE LET vend == MatchVarname(re_varname, string, idx)
             IN  IF vend < 0 THEN [kind |-> "InvalidVariableNameError", end |-> -1]
                 ELSE _find_subst_end(re_varname, re_fmt, string, vend)


\* ---------------------------------------------------- scanner and dispatcher

(***************************************************************************)
(* The engine is a record e of the fields replace reads: strict,           *)
(* raise_on_error_expansion, _re_varname, _re_format_spec, argv (sys.argv),*)
(* and the two it writes, values and logger.  A call gives                 *)
(*   [kind, out, bad, e]                                                   *)
(* kind "ok" or the exception raised, out the string returned, bad whether *)
(* the value returned is not a string, e the engine as the call left it    *)
(* (a dict written before an exception stays written).                     *)
(***************************************************************************)

Ok(e, out) == [kind |-> "ok", out |-> out, bad |-> FALSE, e |-> e]

Raise(e, kind) == [kind |-> kind, out |-> <<>>, bad |-> FALSE, e |-> e]

\* "".join(parts): a part that is not a string (the int appended at line
\* 174) makes join raise TypeError
Join(e, parts, bad) == IF bad THEN Raise(e, "TypeError") ELSE Ok(e, parts)

\* self.values[name] = value
SetValue(e, name, value) ==
    [e EXCEPT !.values = [k \in DOMAIN e.values \cup {name} |->
                              IF k = name THEN value ELSE e.values[k]]]

\* The logging branch of the error substitutions (lines 264-268, 275-279)
LogAndReturnEmpty(e) ==
    Ok([e EXCEPT !.logger = IF e.logger = "None" THEN "logging.warning" ELSE e.logger], <<>>)

\* The ':' case of _handle_expansion (lines 292-310)
Slice(e, value, defstr) ==
    LET idx == Find(defstr, ":", 0)
        pos == _variable_as_int(IF idx < 0 THEN defstr ELSE Sub(defstr, 0, idx))
        count == _variable_as_int(From(defstr, idx + 1))
    IN  IF idx < 0
        THEN (IF pos = NoInt THEN Raise(e, "FormatStringError")
              ELSE IF value = None THEN Raise(e, "TypeError")
              ELSE IF pos[1] >= Len(value) THEN Ok(e, <<>>)
              ELSE Ok(e, From(value, pos[1])))
        ELSE (IF pos = NoInt THEN Raise(e, "FormatStringError")
              ELSE IF count = NoInt THEN Raise(e, "FormatStringError")
              ELSE IF value = None THEN Raise(e, "TypeError")
              ELSE Ok(e, Sub(value, pos[1], pos[1] + count[1])))

RECURSIVE replace(_, _)
RECURSIVE _handle_expansion(_, _, _, _, _, _)
RECURSIVE ReplaceLoop(_, _, _, _, _, _)

\* An assignment substitution (lines 240-259); unset is the test on value
Assign(e, name, special, unset, value, defstr) ==
    IF special THEN Raise(e, "SubstitutionError")
    ELSE IF unset
    THEN LET r == replace(e, defstr)
         IN  IF r.kind # "ok" THEN r
             ELSE [r EXCEPT !.e = SetValue(r.e, name, r.out)]
    ELSE Ok(e, value)

\* An error substitution (lines 260-281)
ErrorSubst(e, unset, value, defstr) ==
    IF unset
    THEN LET msg == replace(e, defstr)
         IN  IF msg.kind # "ok" THEN msg
             ELSE IF ~msg.e.raise_on_error_expansion THEN LogAndReturnEmpty(msg.e)
             ELSE Raise(msg.e, "SubstitutionError")
    ELSE Ok(e, value)

\* A dispatcher whose ':-' case is the ':=' case: the default is stored
_handle_expansion_default_assigns(e, name, special, spec, value, defstr) ==
    CASE spec = <<":", "-">> ->
            Assign(e, name, special, value = None \/ value = <<>>, value, defstr)
      [] spec = <<"-">> ->
            IF value = None THEN replace(e, defstr) ELSE Ok(e, value)
      [] spec = <<":", "=">> ->
            Assign(e, name, special, value = None \/ value = <<>>, value, defstr)
      [] spec = <<"=">> ->
            Assign(e, name, special, value = None, value, defstr)
      [] spec = <<":", "?">> ->
            ErrorSubst(e, value = None \/ value = <<>>, value, defstr)
      [] spec = <<"?">> ->
            ErrorSubst(e, value = None, value, defstr)
      [] spec = <<":", "+">> ->
            IF value = None \/ value = <<>> THEN Ok(e, <<>>) ELSE replace(e, defstr)
      [] spec = <<"+">> ->
            IF value = None THEN Ok(e, <<>>) ELSE replace(e, defstr)
      [] spec = <<":">> -> Slice(e, value, defstr)
      [] OTHER -> [kind |-> "ok", out |-> <<>>, bad |-> TRUE, e |-> e]

\* ShellSubst._handle_expansion
_handle_expansion(e, name, special, spec, value, defstr) ==
    CASE spec = <<":", "-">> ->
            IF value = None \/ value = <<>> THEN replace(e, defstr) ELSE Ok(e, value)
      [] spec = <<"-">> ->
            IF value = None THEN replace(e, defstr) ELSE Ok(e, value)
      [] spec = <<":", "=">> ->
            Assign(e, name, special, value = None \/ value = <<>>, value, defstr)
      [] spec = <<"=">> ->
            Assign(e, name, special, value = None, value, defstr)
      [] spec = <<":", "?">> ->
            ErrorSubst(e, value = None \/ value = <<>>, value, defstr)
      [] spec = <<"?">> ->
            ErrorSubst(e, value = None, value, defstr)
      [] spec = <<":", "+">> ->
            IF value = None \/ value = <<>> THEN Ok(e, <<>>) ELSE replace(e, defstr)
      [] spec = <<"+">> ->
            IF value = None THEN Ok(e, <<>>) ELSE replace(e, defstr)
      [] spec = <<":">> -> Slice(e, value, defstr)
      [] OTHER -> [kind |-> "ok", out |-> <<>>, bad |-> TRUE, e |-> e]

\* The braced form, lines 151-202: the '$' at idx is followed by '{'
Braced(e, string, idx, parts, bad) ==
    LET strlen == idx + 2 < Len(string) /\ At(string, idx + 2) = "#"
        idx1 == IF strlen THEN idx + 3 ELSE idx + 2
        idx2 == MatchVarname(e._re_varname, string, idx1)
        name == Sub(string, idx1, idx2)
        gv == _get_variable(e.values, e.argv, name)
        value == gv[1]
        special == gv[2]
        fend == MatchFormatSpec(e._re_format_spec, string, idx2)
        fmtspec == Sub(string, idx2, fend)
        span == _find_subst_end(e._re_varname, e._re_format_spec, string, fend)
        default_string == Sub(string, fend, span.end - 1)
        r == _handle_expansion(e, name, special, fmtspec, value, default_string)
    IN  IF idx2 < 0 THEN Raise(e, "InvalidVariableNameError")
        ELSE IF idx2 >= Len(string) THEN Raise(e, "UnterminatedFormatError")
        ELSE IF At(string, idx2) = "}"
        THEN (IF value # None
              THEN ReplaceLoop(e, string, idx2 + 1, Find(string, "$", idx2 + 1),
                               IF strlen THEN parts ELSE parts \o value,
                               bad \/ strlen)
              ELSE IF e.strict THEN Raise(e, "KeyError")
              ELSE ReplaceLoop(e, string, idx2 + 1, Find(string, "$", idx2 + 1),
                               IF strlen THEN parts \o <<"0">> ELSE parts, bad))
        ELSE IF fend < 0 THEN Raise(e, "UnterminatedFormatError")
        ELSE IF strlen THEN Raise(e, "FormatStringError")
        ELSE IF span.kind # "ok" THEN Raise(e, span.kind)
        ELSE IF r.kind # "ok" THEN r
        ELSE ReplaceLoop(r.e, string, span.end, Find(string, "$", span.end),
                         parts \o r.out, bad \/ r.bad)

\* The bare form, lines 203-215
Bare(e, string, idx, parts, bad) ==
    LET vend == MatchVarname(e._re_varname, string, idx + 1)
        name == Sub(string, idx + 1, vend)
        value == _get_variable(e.values, e.argv, name)[1]
    IN  IF vend < 0 THEN Raise(e, "InvalidVariableNameError")
        ELSE IF value # None
        THEN ReplaceLoop(e, string, vend, Find(string, "$", vend), parts \o value, bad)
        ELSE IF e.strict THEN Raise(e, "KeyError")
        ELSE ReplaceLoop(e, string, vend, Find(string, "$", vend), parts, bad)

\* The while loop of replace and what follows it, lines 127-224
ReplaceLoop(e, string, start, idx, parts, bad) ==
    IF idx < 0
    THEN Join(e, IF start < Len(string) THEN parts \o From(string, start) ELSE parts, bad)
    ELSE IF idx >= 1 /\ At(string, idx - 1) = "\\"
    THEN ReplaceLoop(e, string, idx + 1, Find(string, "$", idx + 1),
                     (IF start < idx - 1 THEN parts \o Sub(string, start, idx - 1) ELSE parts)
                         \o <<"$">>,
                     bad)
    ELSE IF idx + 1 >= Len(string)
    THEN (IF e.strict THEN Raise(e, "InvalidVariableNameError")
          ELSE Join(e, parts \o From(string, start), bad))
    ELSE LET parts1 == IF start < idx THEN parts \o Sub(string, start, idx) ELSE parts
         IN  IF At(string, idx + 1) = "{"
             THEN Braced(e, string, idx, parts1, bad)
             ELSE Bare(e, string, idx, parts1, bad)

\* ShellSubst.replace
replace(e, string) ==
    LET idx == Find(string, "$", 0)
    IN  IF idx < 0 THEN Ok(e, string) ELSE ReplaceLoop(e, string, 0, idx, <<>>, FALSE)

\* ------------------------------------------------------------ the engine

VARIABLES
    strict,                     \* self.strict
    raise_on_error_expansion,   \* self.raise_on_error_expansion
    logger,                     \* self.logger: "None", "logging.warning" or "custom"
    _expand_args,               \* self._expand_args
    _posix_formats,             \* self._posix_formats
    _allow_string_ops,          \* self._allow_string_ops
    values,                     \* self.values: a function from the names set
    _re_varname,                \* self._re_varname
    _re_format_spec,            \* self._re_format_spec
    argv,                       \* sys.argv
    assigned,                   \* the value last given to each of the three flags
    call,                       \* the operation that has returned, its argument and outcome
    before                      \* self.values when that operation began

vars ==
    <<strict, raise_on_error_expansion, logger, _expand_args, _posix_formats,
      _allow_string_ops, values, _re_varname, _re_format_spec, argv, assigned,
      call, before>>

\* The fields replace reads and writes
Engine ==
    [strict |-> strict, raise_on_error_expansion |-> raise_on_error_expansion,
     _re_varname |-> _re_varname, _re_format_spec |-> _re_format_spec,
     argv |-> argv, values |-> values, logger |-> logger]

\* The engine as it was when the last operation began: only values and
\* logger are written by replace, and logger is read by no result.
EngineBefore == [Engine EXCEPT !.values = before]

NoCall == [op |-> "none", arg |-> <<>>, kind |-> "ok", out |-> <<>>]

\* The engine is used by one caller, synchronously (no operation begins
\* before the caller has taken the last one's outcome).
Idle == call.op = "none"

\* ShellSubst.__init__(values, strict, expand_args, posix_formats,
\* allow_string_ops, raise_on_error_expansion, logger) under sys.argv = args
__init__(vals, strict0, expand_args0, posix_formats0, allow_string_ops0, raise0, logger0, args) ==
    /\ strict = strict0
    /\ raise_on_error_expansion = raise0
    /\ logger = logger0
    /\ _expand_args = expand_args0
    /\ _posix_formats = posix_formats0
    /\ _allow_string_ops = allow_string_ops0
    /\ values = vals
    /\ _re_varname = re_variable_name(expand_args0)
    /\ _re_format_spec = re_format_spec(posix_formats0, allow_string_ops0)
    /\ argv = args
    /\ assigned = [expand_args |-> expand_args0, posix_formats |-> posix_formats0,
                   allow_string_ops |-> allow_string_ops0]
    /\ call = NoCall
    /\ before = vals

\* subst.replace(string)
Replace(string) ==
    LET r == replace(Engine, string)
    IN  /\ Idle
        /\ values' = r.e.values
        /\ logger' = r.e.logger
        /\ call' = [op |-> "replace", arg |-> string, kind |-> r.kind, out |-> r.out]
        /\ before' = values
        /\ UNCHANGED <<strict, raise_on_error_expansion, _expand_args, _posix_formats,
                       _allow_string_ops, _re_varname, _re_format_spec, argv, assigned>>

\* subst.expand_args = value
SetExpandArgs(value) ==
    /\ Idle
    /\ _expand_args' = TRUE
    /\ assigned' = [assigned EXCEPT !.expand_args = value]
    /\ _re_varname' = re_variable_name(value)
    /\ call' = [op |-> "expand_args", arg |-> value, kind |-> "ok", out |-> <<>>]
    /\ before' = values
    /\ UNCHANGED <<strict, raise_on_error_expansion, logger, _posix_formats,
                   _allow_string_ops, values, _re_format_spec, argv>>

\* subst.posix_formats = value
SetPosixFormats(value) ==
    /\ Idle
    /\ _posix_formats' = value
    /\ assigned' = [assigned EXCEPT !.posix_formats = value]
    /\ _re_format_spec' = re_format_spec(value, _allow_string_ops)
    /\ call' = [op |-> "posix_formats", arg |-> value, kind |-> "ok", out |-> <<>>]
    /\ before' = values
    /\ UNCHANGED <<strict, raise_on_error_expansion, logger, _expand_args,
                   _allow_string_ops, values, _re_varname, argv>>

\* subst.allow_string_ops = value
SetAllowStringOps(value) ==
    /\ Idle
    /\ _allow_string_ops' = value
    /\ assigned' = [assigned EXCEPT !.allow_string_ops = value]
    /\ _re_format_spec' = re_format_spec(_posix_formats, value)
    /\ call' = [op |-> "allow_string_ops", arg |-> value, kind |-> "ok", out |-> <<>>]
    /\ before' = values
    /\ UNCHANGED <<strict, raise_on_error_expansion, logger, _expand_args,
                   _posix_formats, values, _re_varname, argv>>

\* subst.strict = value
SetStrict(value) ==
    /\ Idle
    /\ strict' = value
    /\ call' = [op |-> "strict", arg |-> value, kind |-> "ok", out |-> <<>>]
    /\ before' = values
    /\ UNCHANGED <<raise_on_error_expansion, logger, _expand_args, _posix_formats,
                   _allow_string_ops, values, _re_varname, _re_format_spec, argv,
                   assigned>>

\* The caller takes the outcome of the operation that returned.
Return ==
    /\ ~Idle
    /\ call' = NoCall
    /\ before' = values
    /\ UNCHANGED <<strict, raise_on_error_expansion, logger, _expand_args, _posix_formats,
                   _allow_string_ops, values, _re_varname, _re_format_spec, argv,
                   assigned>>

\* ------------------------------------------------------------ the inputs

\* The nesting depth of the substitutions the templates are built to
MaxDepth == 2

\* The slice offsets and lengths run over -MaxOffset..MaxOffset
MaxOffset == 6

\* sys.argv holds the program name and up to MaxArgs arguments
MaxArgs == 2

A == <<"A">>

B == <<"B">>

V == <<"V">>

Names == {A, B}

Hello == <<"h", "e", "l", "l", "o">>

\* The dicts an engine is constructed with: A and B each unset, empty or
\* set, and V ("hello") set or not.
Stores ==
    {[k \in dom |-> IF k = V THEN Hello ELSE IF k \in empty THEN <<>>
                    ELSE IF k = A THEN <<"z">> ELSE <<"y">>] :
        dom \in SUBSET (Names \cup {V}), empty \in SUBSET Names}

\* The nine operator tokens, and the eight that take a fallback text
WordOps ==
    {<<":", "-">>, <<"-">>, <<":", "=">>, <<"=">>, <<":", "?">>, <<"?">>,
     <<":", "+">>, <<"+">>}

AllOps == WordOps \cup {<<":">>}

\* ${name<op>f}
Form(name, op, f) == <<"$", "{">> \o name \o op \o f \o <<"}">>

\* ${name}, ${#name} and $name
BraceForm(name) == <<"$", "{">> \o name \o <<"}">>

LengthForm(name) == <<"$", "{", "#">> \o name \o <<"}">>

BareForm(name) == <<"$">> \o name

Esc == <<"\\", "$">>

\* Texts with no substitution in them: literal text and escaped dollars
EscapeTexts ==
    {Esc, Esc \o <<"x">>, <<"x">> \o Esc, Esc \o Esc, <<"x">> \o Esc \o <<"t">>,
     Esc \o <<"1", "0", "0">>}

\* Fallback texts with no braced form in them
Atoms ==
    {<<>>, <<"x">>, BareForm(B), <<"x", "$">>} \cup {e \in EscapeTexts : Len(e) <= 3}

\* The substitutions nested inside a fallback text, to depth d
RECURSIVE Inner(_)
Inner(d) ==
    IF d = 0 THEN {<<"x">>}
    ELSE Inner(d - 1) \cup {BraceForm(B)}
            \cup {Form(n, op, f) : n \in Names, op \in {<<":", "-">>, <<":", "=">>},
                                   f \in Inner(d - 1)}

\* The fallback texts tried with every operator, and with the default
\* and assignment operators the nested ones to the full depth
Fallbacks ==
    Atoms \cup Inner(1)
        \cup {Form(A, <<"+">>, <<"y">>), Esc \o BraceForm(B), Esc \o <<"$", "{">>}

DeepFallbacks == Fallbacks \cup Inner(MaxDepth - 1)

\* The templates of the operators that take a fallback text: a
\* substitution alone or between literal text, two side by side, the
\* forms with no operator, and the texts with no substitution
WordTemplates ==
    {Form(n, op, f) : n \in Names, op \in WordOps, f \in Fallbacks}
        \cup {Form(n, op, f) : n \in Names, op \in {<<":", "-">>, <<":", "=">>},
                               f \in DeepFallbacks}
        \cup {<<"x">> \o Form(n, <<":", "-">>, f) \o <<"t">> : n \in Names, f \in DeepFallbacks}
        \cup {Form(A, <<":", "=">>, <<"x">>) \o Form(B, op, <<"x">>) : op \in WordOps}
        \cup {BraceForm(n) : n \in Names} \cup {BareForm(n) : n \in Names}
        \cup {BareForm(A) \o e : e \in EscapeTexts} \cup {e \o BareForm(A) : e \in EscapeTexts}
        \cup EscapeTexts
        \cup {<<>>, <<"x">>, <<"x", "}">>, <<"$">>, <<"$", "{">>, <<"$", "{", "A">>,
              <<"$", "{", "A", ":", "-", "x">>}

\* n as a decimal literal
IntText(n) == IF n < 0 THEN <<"-">> \o Str(0 - n) ELSE Str(n)

Offsets == (0 - MaxOffset)..MaxOffset

\* The texts after the ':' of a slice: offset, offset:length, each also
\* with a space before it (int() strips it), and texts that are neither
SliceArgs ==
    {IntText(o) : o \in Offsets} \cup {<<" ">> \o IntText(o) : o \in Offsets}
        \cup {IntText(o) \o <<":">> \o IntText(l) : o \in Offsets, l \in Offsets}
        \cup {<<" ">> \o IntText(o) \o <<":">> \o IntText(l) : o \in Offsets, l \in Offsets}
        \cup {<<>>, <<"x">>, <<"1", ":">>, <<":", "1">>, <<"1", ":", "x">>}

\* The templates of the string operations: slices and string lengths
StringTemplates ==
    {Form(n, <<":">>, f) : n \in {A, V}, f \in SliceArgs}
        \cup {LengthForm(n) : n \in Names \cup {V}}
        \cup {<<"x">> \o LengthForm(n) \o <<"t">> : n \in Names \cup {V}}
        \cup {LengthForm(A) \o op \o <<"x", "}">> : op \in AllOps}

\* The positional and special names: '@', '*', '#' and runs of digits
SpecialNames ==
    {<<"@">>, <<"*">>, <<"#">>, <<"1", "2">>} \cup {IntText(i) : i \in 0..(MaxArgs + 1)}

\* The argument vectors: the program name and up to MaxArgs arguments
ArgVectors == {SubSeq(<<<<"p">>, <<"a">>, <<"b", "b">>, <<"c">>, <<"d">>, <<"e">>>>, 1, k) : k \in 1..(MaxArgs + 1)}

\* The fallback texts tried under each flag setting
FlagFallbacks == {<<"x">>, BareForm(A), Form(A, <<":", "=">>, <<"x">>)}

\* The templates called under each flag setting: every operator on an
\* ordinary and on a special name, and the forms with no operator
FlagTemplates ==
    {Form(n, op, f) : n \in {A} \cup SpecialNames, op \in AllOps, f \in FlagFallbacks}
        \cup {BraceForm(n) : n \in {A} \cup SpecialNames}
        \cup {BareForm(n) : n \in {A} \cup SpecialNames}
        \cup {LengthForm(n) : n \in {A, B}}

\* ------------------------------------------------------ the specifications

\* An engine constructed with the default flags over each dict with V
\* set, as it is by default, strict, or logging the error substitutions,
\* and called on the templates of the operators that take a fallback text.
Init ==
    \E vals \in {v \in Stores : V \in DOMAIN v},
       flags \in {<<FALSE, TRUE>>, <<TRUE, TRUE>>, <<FALSE, FALSE>>} :
        __init__(vals, flags[1], FALSE, TRUE, TRUE, flags[2], "None", <<<<"p">>, <<"a">>>>)

Next == (\E string \in WordTemplates : Replace(string)) \/ Return

Spec == Init /\ [][Next]_vars

\* The same engine, called on the templates of the string operations.
InitString ==
    \E vals \in Stores, strict0 \in BOOLEAN :
        __init__(vals, strict0, FALSE, TRUE, TRUE, TRUE, "None", <<<<"p">>, <<"a">>>>)

NextString == (\E string \in StringTemplates : Replace(string)) \/ Return

SpecString == InitString /\ [][NextString]_vars
\* An engine constructed with any flags, reconfigured through the setters
\* and called under each configuration.
InitFlags ==
    \E vals \in {v \in Stores : B \notin DOMAIN v /\ V \notin DOMAIN v},
       expand_args0 \in BOOLEAN, posix_formats0 \in BOOLEAN, allow_string_ops0 \in BOOLEAN,
       args \in ArgVectors :
        __init__(vals, FALSE, expand_args0, posix_formats0, allow_string_ops0, TRUE, "None", args)

NextFlags ==
    \/ \E value \in BOOLEAN : SetExpandArgs(value)
    \/ \E value \in BOOLEAN : SetPosixFormats(value)
    \/ \E value \in BOOLEAN : SetAllowStringOps(value)
    \/ \E value \in BOOLEAN : SetStrict(value)
    \/ \E string \in FlagTemplates : Replace(string)
    \/ Return

SpecFlags == InitFlags /\ [][NextFlags]_vars

\* ------------------------------------------------------------ the claims

\* dict.get(name): the value under name, or None
Lookup(vals, name) == IF name \in DOMAIN vals THEN vals[name] ELSE None

Called(string) == call.op = "replace" /\ call.arg = string

Returned(out) == call.kind = "ok" /\ call.out = out

\* Every '}' of f closes a "${" of f, and every "${" of f is closed: the
\* brace that follows f in ${NAME<op>f} is the one that ends the form.
RECURSIVE ClosesOnlyNested(_, _)
ClosesOnlyNested(f, open) ==
    IF f = <<>> THEN open = 0
    ELSE IF Len(f) >= 2 /\ f[1] = "$" /\ f[2] = "{"
    THEN ClosesOnlyNested(SubSeq(f, 3, Len(f)), open + 1)
    ELSE IF f[1] = "}" THEN open > 0 /\ ClosesOnlyNested(Tail(f), open - 1)
    ELSE ClosesOnlyNested(Tail(f), open)

\* t with each backslash that stands before a '$' removed
RECURSIVE Unescape(_)
Unescape(t) ==
    IF t = <<>> THEN t
    ELSE IF Len(t) >= 2 /\ t[1] = "\\" /\ t[2] = "$"
    THEN <<"$">> \o Unescape(SubSeq(t, 3, Len(t)))
    ELSE <<t[1]>> \o Unescape(Tail(t))

\* C1: for every NAME and every fallback text f that its closing brace
\* ends and on which replace(f) succeeds, replace("${NAME:-f}") is
\* replace(f) when NAME is unset or empty, and is NAME's value, with the
\* dict unchanged, when the value is nonempty.
C1_DefaultOperator ==
    \A n \in Names, f \in DeepFallbacks :
        (/\ Called(Form(n, <<":", "-">>, f))
         /\ ClosesOnlyNested(f, 0)
         /\ replace(EngineBefore, f).kind = "ok")
        => IF Lookup(before, n) \in {None, <<>>}
           THEN Returned(replace(EngineBefore, f).out)
           ELSE Returned(Lookup(before, n)) /\ values = before

\* C2: every backslash followed by '$' comes out as '$' with the backslash
\* removed and no substitution attempted: in a text of literals and
\* escapes, next to a substitution, and in the fallback text of a braced
\* form up to its closing brace.
C2_EscapedDollar ==
    /\ \A e \in EscapeTexts : Called(e) => Returned(Unescape(e))
    /\ \A e \in EscapeTexts :
          (A \in DOMAIN before /\ Called(e \o BareForm(A)))
          => Returned(Unescape(e) \o before[A])
    /\ \A e \in {x \in EscapeTexts : x[1] = "\\"} :
          (A \in DOMAIN before /\ Called(BareForm(A) \o e))
          => Returned(before[A] \o Unescape(e))
    /\ \A n \in Names, e \in EscapeTexts \cap Fallbacks :
          (Lookup(before, n) \in {None, <<>>} /\ Called(Form(n, <<":", "-">>, e)))
          => Returned(Unescape(e))

\* The part of C2 outside braced forms, which the code keeps: a text of
\* literals and escaped dollars, alone or next to $A, comes out with every
\* "\$" turned into "$".
C2_TopLevelEscape ==
    /\ \A e \in EscapeTexts : Called(e) => Returned(Unescape(e))
    /\ \A e \in EscapeTexts :
          (A \in DOMAIN before /\ Called(e \o BareForm(A)))
          => Returned(Unescape(e) \o before[A])
    /\ \A e \in {x \in EscapeTexts : x[1] = "\\"} :
          (A \in DOMAIN before /\ Called(BareForm(A) \o e))
          => Returned(before[A] \o Unescape(e))

\* C3: for every unset NAME and every fallback text f, replace("${NAME:=f}")
\* ends as replace(f) does; when it returns, NAME then holds the string
\* returned, and a second replace of the same template returns it again.
C3_AssignOperator ==
    \A n \in Names, f \in DeepFallbacks :
        (Called(Form(n, <<":", "=">>, f)) /\ n \notin DOMAIN before)
        => /\ call.kind = replace(EngineBefore, f).kind
           /\ call.kind = "ok"
              => /\ call.out = replace(EngineBefore, f).out
                 /\ Lookup(values, n) = call.out
                 /\ replace(Engine, call.arg).kind = "ok"
                 /\ replace(Engine, call.arg).out = call.out

\* C4: with expand_args enabled (and the POSIX operators accepted), an
\* assignment operator on a positional or special name raises
\* SubstitutionError, whatever the name resolves to, and leaves the dict
\* as it was.
C4_AssignToSpecial ==
    \A n \in SpecialNames, op \in {<<":", "=">>, <<"=">>}, f \in FlagFallbacks :
        (/\ Called(Form(n, op, f))
         /\ assigned.expand_args
         /\ assigned.posix_formats)
        => call.kind = "SubstitutionError" /\ values = before

\* C5: the outer substitution ends at its own closing brace, not at a
\* nested form's.  ${A:-${B:-x}} is x when A and B are unset, B's value
\* when only A is unset, A's value when A is set; for every NAME and every
\* nested fallback f, ${NAME:-f} is the value when it is nonempty and else
\* ends as replace(f) does, with the dict as replace(f) leaves it; and the
\* text around the form is kept as literal text.
C5_NestedFallback ==
    /\ \A n \in Names, f \in Inner(MaxDepth - 1), w \in {<<>>, <<"x">>} :
          Called(w \o Form(n, <<":", "-">>, f) \o (IF w = <<>> THEN <<>> ELSE <<"t">>))
          => LET r == replace(EngineBefore, f)
                 t == IF w = <<>> THEN <<>> ELSE <<"t">>
             IN  IF Lookup(before, n) \in {None, <<>>}
                 THEN /\ call.kind = r.kind
                      /\ values = r.e.values
                      /\ r.kind = "ok" => call.out = w \o r.out \o t
                 ELSE Returned(w \o before[n] \o t) /\ values = before
    /\ Called(<<"x">> \o Form(A, <<":", "-">>, Form(B, <<":", "-">>, <<"x">>)) \o <<"t">>)
       => Returned(<<"x">>
                     \o (IF Lookup(before, A) \notin {None, <<>>} THEN before[A]
                         ELSE IF Lookup(before, B) \notin {None, <<>>} THEN before[B]
                         ELSE <<"x">>)
                     \o <<"t">>)

\* A is unset and B is "y": x${A:-${B:-x}}t has returned xyt
C5_Witness ==
    /\ Called(<<"x">> \o Form(A, <<":", "-">>, Form(B, <<":", "-">>, <<"x">>)) \o <<"t">>)
    /\ A \notin DOMAIN before
    /\ Lookup(before, B) = <<"y">>
    /\ Returned(<<"x", "y", "t">>)

\* C6: ${#NAME} is the decimal length of NAME's value, with the text
\* around it kept, and "0" for an unset NAME when not strict.
C6_StringLength ==
    \A n \in Names \cup {V}, w \in {<<>>, <<"x">>} :
        LET t == IF w = <<>> THEN <<>> ELSE <<"t">>
        IN  Called(w \o LengthForm(n) \o t)
            => IF n \in DOMAIN before THEN Returned(w \o Str(Len(before[n])) \o t)
               ELSE ~strict => Returned(w \o <<"0">> \o t)

\* The offset and length of a slice as the template writes them: a
\* negative offset after a space, which keeps ":-" from being read as
\* the default operator.
OffsetText(o) == IF o < 0 THEN <<" ">> \o IntText(o) ELSE IntText(o)

\* The substring of v that starts at offset o, a negative o counting from
\* the end of v
SuffixAt(v, o) ==
    LET first == IF o < 0 THEN Max(Len(v) + o, 0) ELSE o
    IN  IF first >= Len(v) THEN <<>> ELSE SubSeq(v, first + 1, Len(v))

\* The first l characters of w
Take(w, l) == SubSeq(w, 1, Min(l, Len(w)))

\* C7: ${V:o} is the substring of the value from offset o to its end and
\* ${V:o:l} that substring's first l characters, a negative o counting
\* from the end and an offset past the end giving the empty string.
C7_Slice ==
    \A n \in {A, V}, o \in Offsets :
        n \in DOMAIN before
        => /\ Called(Form(n, <<":">>, OffsetText(o))) => Returned(SuffixAt(before[n], o))
           /\ \A l \in 0..MaxOffset :
                 Called(Form(n, <<":">>, OffsetText(o) \o <<":">> \o IntText(l)))
                 => Returned(Take(SuffixAt(before[n], o), l))

\* C8: with posix_formats and allow_string_ops set to False (strict and
\* expand_args off), ${NAME<op>text} raises UnterminatedFormatError for
\* each of +, :+, =, :=, ?, :? and ${#NAME} raises
\* InvalidVariableNameError, for set and unset NAME.
C8_SimpleFormatsOnly ==
    (/\ ~assigned.posix_formats /\ ~assigned.allow_string_ops
     /\ ~assigned.expand_args /\ ~strict)
    => /\ \A op \in WordOps \ {<<":", "-">>, <<"-">>}, f \in FlagFallbacks :
             Called(Form(A, op, f)) => call.kind = "UnterminatedFormatError"
       /\ \A n \in {A, B} :
             Called(LengthForm(n)) => call.kind = "InvalidVariableNameError"

\* The names an assignment operator of template t is applied to: the
\* names that stand between a '{' and an '=' or a ':='
AssignTargets(t) ==
    {Sub(t, i, MatchName(t, i)) :
        i \in {j \in 1..Len(t) :
                  /\ t[j] = "{"
                  /\ LET m == MatchName(t, j)
                     IN  /\ m >= 0
                         /\ \/ m < Len(t) /\ At(t, m) = "="
                            \/ m + 1 < Len(t) /\ At(t, m) = ":" /\ At(t, m + 1) = "="}}

\* C9: replace changes the dict only through an assignment operator: a
\* call on a template with no assignment operator, raising or not, leaves
\* the dict as it was, and the same call again ends the same way; a call
\* with assignment operators changes no key but the names they are
\* applied to, and removes none.
C9_StoreFrame ==
    call.op = "replace"
    => /\ AssignTargets(call.arg) = {}
          => /\ values = before
             /\ replace(Engine, call.arg).kind = call.kind
             /\ replace(Engine, call.arg).out = call.out
       /\ DOMAIN before \subseteq DOMAIN values
       /\ \A k \in DOMAIN values \ AssignTargets(call.arg) : Lookup(before, k) = values[k]

\* ${A:=${B:=x}} on a dict without A and B has stored x under both, and
\* nothing else has changed
C9_Witness ==
    /\ Called(Form(A, <<":", "=">>, Form(B, <<":", "=">>, <<"x">>)))
    /\ DOMAIN before = {V}
    /\ DOMAIN values = {A, B, V}
    /\ values[A] = <<"x">> /\ values[B] = <<"x">> /\ values[V] = before[V]

\* C10: each of expand_args, posix_formats and allow_string_ops reads back
\* the value last assigned to it, and the two matchers are the ones an
\* engine constructed with those values has.
C10_FlagsReadBack ==
    /\ _expand_args = assigned.expand_args
    /\ _posix_formats = assigned.posix_formats
    /\ _allow_string_ops = assigned.allow_string_ops
    /\ _re_varname = re_variable_name(assigned.expand_args)
    /\ _re_format_spec = re_format_spec(assigned.posix_formats, assigned.allow_string_ops)

====
